---- MODULE Spec2Model ----
(***************************************************************************)
(* Token Mill market state (programs/token-mill/src/state/market.rs):      *)
(* fee distribution, market initialisation, price validation and the       *)
(* bonding-curve quote computations.                                       *)
(*                                                                         *)
(* The program computes on u64 and u128 values.  Those do not fit the      *)
(* integers of the model checker, so every u64/u128 quantity is a natural  *)
(* number written as a little-endian sequence of limbs in base 10^4        *)
(* without leading zero limbs (0 is <<>>, 10^10 is <<0, 0, 100>>).  u16,   *)
(* u8 and array indices are plain integers.                                *)
(***************************************************************************)
EXTENDS Integers, Sequences, FiniteSets, TLC

(***************************************************************************)
(* Natural-number arithmetic on limb sequences.  A test of the form v = v   *)
(* only makes the evaluator compute the argument v at that point, before   *)
(* the expression that uses it is entered.                                 *)
(***************************************************************************)
Base == 100 * 100

MaxOf(S) == CHOOSE x \in S : \A y \in S : y <= x

Limb(a, i) == IF i <= Len(a) THEN a[i] ELSE 0

\* The function f on 1..n as a sequence value.
Tup(f) == SubSeq(f, 1, Len(f))

\* The sequence s up to its last limb that is not 0.
UpToLast(s, nz) == IF nz = {} THEN <<>> ELSE SubSeq(s, 1, MaxOf(nz))

\* Drop the leading (high) zero limbs.
Norm(s) == IF s = s THEN UpToLast(s, {i \in 1..Len(s) : s[i] # 0}) ELSE <<>>

\* One pass of carrying: every column keeps its low limb and receives the
\* high part of the column below.
Reduce(s) ==
    IF s = s
    THEN Tup([i \in 1..(Len(s) + 1) |->
                 (Limb(s, i) % Base) + (IF i > 1 THEN s[i - 1] \div Base ELSE 0)])
    ELSE <<>>

\* The carry into limb i of columns t that are all below 2 * Base - 1: some
\* lower limb overflows and every limb between passes the carry on.
CarryIn(t, i) ==
    \E j \in 1..(i - 1) :
        t[j] >= Base /\ \A k \in (j + 1)..(i - 1) : t[k] = Base - 1

\* The number whose columns t are all below 2 * Base - 1.
Settle(t) ==
    IF t = t
    THEN Norm(Tup([i \in 1..Len(t) |->
                      (t[i] + (IF CarryIn(t, i) THEN 1 ELSE 0)) % Base]))
    ELSE <<>>

\* The number whose columns (non-negative, of any size) are s.
Carry(s) == Settle(Reduce(Reduce(s)))

\* The borrow into limb i of the limb differences d.
BorrowIn(d, i) ==
    \E j \in 1..(i - 1) : d[j] < 0 /\ \A k \in (j + 1)..(i - 1) : d[k] = 0

\* The number whose limb differences are d, when it is not negative.
Borrow(d) ==
    IF d = d
    THEN Norm(Tup([i \in 1..Len(d) |->
                      (d[i] - (IF BorrowIn(d, i) THEN 1 ELSE 0)) % Base]))
    ELSE <<>>

\* A machine integer below Base^3 as a number.
Nat2Big(n) == Norm(<<n % Base, (n \div Base) % Base, n \div (Base * Base)>>)

Zero == <<>>
One == <<1>>

\* The comparison of a and b of equal length that differ at the limbs d.
CmpAt(a, b, d) == IF d = {} THEN 0 ELSE IF a[MaxOf(d)] < b[MaxOf(d)] THEN -1 ELSE 1

\* -1, 0, 1 as a < b, a = b, a > b.
Cmp(a, b) ==
    IF Len(a) # Len(b) THEN (IF Len(a) < Len(b) THEN -1 ELSE 1)
    ELSE CmpAt(a, b, {i \in 1..Len(a) : a[i] # b[i]})

Le(a, b) == Cmp(a, b) <= 0
Lt(a, b) == Cmp(a, b) < 0

MinBig(a, b) == IF Le(a, b) THEN a ELSE b

Add(a, b) ==
    IF a = a /\ b = b
    THEN Carry(Tup([i \in 1..(IF Len(a) < Len(b) THEN Len(b) ELSE Len(a)) |->
                       Limb(a, i) + Limb(b, i)]))
    ELSE <<>>

\* a - b, for a >= b.
Sub(a, b) ==
    IF a = a /\ b = b
    THEN Borrow(Tup([i \in 1..Len(a) |-> a[i] - Limb(b, i)]))
    ELSE <<>>

\* The sum of a[i] * b[k + 1 - i] over i in lo..hi.
RECURSIVE ColSum(_, _, _, _, _)
ColSum(a, b, k, lo, hi) ==
    IF lo > hi THEN 0
    ELSE IF lo = hi THEN a[lo] * b[k + 1 - lo]
    ELSE ColSum(a, b, k, lo, (lo + hi) \div 2)
         + ColSum(a, b, k, (lo + hi) \div 2 + 1, hi)

Mul(a, b) ==
    IF a = a /\ b = b /\ a # <<>> /\ b # <<>>
    THEN Carry(Tup([k \in 1..(Len(a) + Len(b) - 1) |->
                       ColSum(a, b, k, IF k > Len(b) THEN k + 1 - Len(b) ELSE 1,
                              IF k < Len(a) THEN k ELSE Len(a))]))
    ELSE <<>>

\* a * d for a single limb d.
MulSmall(a, d) ==
    IF a = a /\ d # 0 THEN Carry(Tup([i \in 1..Len(a) |-> a[i] * d])) ELSE <<>>

\* The largest limb e <= d with b * e <= r, and the product b * e; QTry is
\* given the product m = b * d.
RECURSIVE QDown(_, _, _)
RECURSIVE QTry(_, _, _, _)
QTry(r, b, d, m) ==
    IF m = m /\ (d = 0 \/ Le(m, r))
    THEN [d |-> d, m |-> m]
    ELSE QDown(r, b, d - 1)

QDown(r, b, d) == QTry(r, b, d, MulSmall(b, d))

\* The estimate of the quotient limb of r by b from their top limbs.
QEstimate(r, b) ==
    IF (Limb(r, Len(b) + 1) * Base + r[Len(b)]) \div b[Len(b)] > Base - 1
    THEN Base - 1
    ELSE (Limb(r, Len(b) + 1) * Base + r[Len(b)]) \div b[Len(b)]

\* The quotient limb d of r by b, with m = b * d, for r < b * Base and a
\* divisor b whose top limb is at least Base / 2: the estimate from the top
\* limbs is then at most 2 above the quotient limb.
QDigit(r, b) ==
    IF r = r /\ Lt(r, b) THEN [d |-> 0, m |-> <<>>] ELSE QDown(r, b, QEstimate(r, b))

\* One step of the long division: the remainder r1 with the next limb
\* brought down, and its quotient limb qd.
DivLimb(r1, qd) ==
    IF r1 = r1 /\ qd = qd
    THEN [q |-> <<qd.d>>, r |-> Sub(r1, qd.m)]
    ELSE [q |-> <<>>, r |-> r1]

\* Long division of the limbs hi down to lo of a by b, entered with the
\* running remainder r: the quotient limbs and the remainder left.  The range
\* is halved, and the upper half (top) is computed before the lower half
\* (bot) starts.
RECURSIVE DivRange(_, _, _, _, _)
RECURSIVE DivLower(_, _, _, _, _)
DivJoin(top, bot) ==
    IF bot = bot THEN [q |-> bot.q \o top.q, r |-> bot.r] ELSE top

DivLower(a, b, mid, lo, top) ==
    IF top = top THEN DivJoin(top, DivRange(a, b, mid, lo, top.r)) ELSE top

DivRange(a, b, hi, lo, r) ==
    IF hi = lo
    THEN DivLimb(Norm(<<a[hi]>> \o r), QDigit(Norm(<<a[hi]>> \o r), b))
    ELSE DivLower(a, b, (hi + lo) \div 2, lo,
                  DivRange(a, b, hi, (hi + lo) \div 2 + 1, r))

\* The quotient of the division result d.
QuotientOf(d) == IF d = d THEN Norm(d.q) ELSE <<>>

\* The quotient of as by bs, the scaled dividend and divisor.
DivScaled(as, bs) ==
    IF as = as /\ bs = bs
    THEN QuotientOf(DivRange(as, bs, Len(as), 1, <<>>))
    ELSE <<>>

\* Quotient of a by b, for b # 0.  Both are scaled first so that the
\* divisor's top limb is at least Base / 2, which leaves the quotient as it is.
Div(a, b) ==
    IF a = a /\ b = b /\ a # <<>>
    THEN DivScaled(MulSmall(a, Base \div (b[Len(b)] + 1)),
                   MulSmall(b, Base \div (b[Len(b)] + 1)))
    ELSE <<>>

\* Remainder of a by b, for b # 0.
Rem(a, b) == Sub(a, Mul(Div(a, b), b))


(***************************************************************************)
(* Program constants (constant.rs) and the integer widths.                 *)
(***************************************************************************)
PRICES_LENGTH == 11
INTERVAL_NUMBER == PRICES_LENGTH - 1
\* 1e15
MAX_TOTAL_SUPPLY == <<0, 0, 0, 1000>>
\* 1e18
MAX_PRICE == <<0, 0, 0, 0, 100>>
\* 1e6
BASE_PRECISION == <<0, 100>>
\* 1e10
SCALE == <<0, 0, 100>>
MAX_BPS == 10000
\* u16::MAX
U16_MAX == 65535
\* u64::MAX = 18446744073709551615
U64_MAX == <<1615, 955, 737, 6744, 1844>>
\* u128::MAX = 340282366920938463463374607431768211455
U128_MAX == <<1455, 6821, 4317, 4607, 6337, 4634, 938, 6692, 2823, 340>>

(***************************************************************************)
(* Bounds of the model.                                                    *)
(***************************************************************************)
\* distribute_fee calls in one behaviour.
MaxFeeCalls == 2
\* Trades in one behaviour.
MaxSwaps == 2
\* Quote computations between two trades.
MaxQuotes == 2

(***************************************************************************)
(* Checked arithmetic.  None is the Option::None of a checked operation;   *)
(* an operand that is None yields None, as and_then does.                  *)
(***************************************************************************)
None == <<-1>>

\* The value v of an operation on an integer type whose largest value is
\* max: None when it does not fit.
fits(v, max) == IF v = v /\ Le(v, max) THEN v ELSE None

checked_add(a, b, max) ==
    IF a = None \/ b = None THEN None ELSE fits(Add(a, b), max)

checked_sub(a, b) ==
    IF a = None \/ b = None THEN None
    ELSE IF Lt(a, b) THEN None ELSE Sub(a, b)

checked_mul(a, b, max) ==
    IF a = None \/ b = None THEN None ELSE fits(Mul(a, b), max)

checked_div(a, b) ==
    IF a = None \/ b = None THEN None
    ELSE IF b = Zero THEN None ELSE Div(a, b)

checked_rem(a, b) ==
    IF a = None \/ b = None THEN None
    ELSE IF b = Zero THEN None ELSE Rem(a, b)

\* u64::try_from(v).ok()
try_from_u64(v) == IF v = None THEN None ELSE IF Le(v, U64_MAX) THEN v ELSE None

(***************************************************************************)
(* Unchecked arithmetic.  What an operator of the integer type does with a *)
(* result above its largest value max depends on how the program is built: *)
(* with overflow checks (checks = TRUE) the program panics, and without    *)
(* them the result wraps around modulo max + 1.                            *)
(***************************************************************************)
Panic == <<-2>>

unchecked(v, max, checks) ==
    IF v = v /\ Le(v, max) THEN v
    ELSE IF checks THEN Panic
    ELSE Rem(v, Add(max, One))

\* a * b on u128 without an overflow check; the panic of an operand is
\* passed on.
unchecked_mul(a, b, checks) ==
    IF a = Panic \/ b = Panic THEN Panic
    ELSE unchecked(Mul(a, b), U128_MAX, checks)

\* u128::pow(10, k): the number 10^k has k \div 4 zero limbs below the limb
\* 10^(k % 4).
Pow10(k, checks) ==
    unchecked(Tup([i \in 1..(k \div 4 + 1) |->
                     IF i = k \div 4 + 1 THEN <<1, 10, 100, 1000>>[(k % 4) + 1]
                     ELSE 0]),
              U128_MAX, checks)

(***************************************************************************)
(* MarketFees::distribute_fee                                              *)
(***************************************************************************)
\* Option<u16>::None for the referral share.
NoReferral == -1

\* amount * share / MAX_BPS in u128, narrowed to u64.
fee_share(amount, share) ==
    try_from_u64(checked_div(checked_mul(amount, Nat2Big(share), U128_MAX),
                             Nat2Big(MAX_BPS)))

remaining_fee(swap_fee, creator_fee, staking_fee) ==
    checked_sub(checked_sub(swap_fee, creator_fee), staking_fee)

referral_fee(remaining, referral_fee_share) ==
    IF referral_fee_share # NoReferral
    THEN fee_share(remaining, referral_fee_share)
    ELSE Zero

protocol_fee_mut(remaining, referral_share, referral) ==
    IF referral_share = NoReferral THEN remaining
    ELSE IF referral_share > MAX_BPS THEN None
    ELSE fee_share(remaining, MAX_BPS - referral_share)

protocol_fee(remaining, referral_share, referral) == checked_sub(remaining, referral)

FeeErr(fees) ==
    [err |-> "MathError", fees |-> fees, creator_fee |-> Zero,
     staking_fee |-> Zero, protocol_fee |-> Zero, referral_fee |-> Zero]

\* The result and the fees record as the call leaves it.  The creator
\* balance is assigned before the staking balance is computed.
distribute_fee(fees, swap_fee, referral_fee_share) ==
    LET creator == fee_share(swap_fee, fees.creator_fee_share)
        staking == fee_share(swap_fee, fees.staking_fee_share)
        remaining == remaining_fee(swap_fee, creator, staking)
        referral == referral_fee(remaining, referral_fee_share)
        protocol == protocol_fee(remaining, referral_fee_share, referral)
        new_creator == checked_add(fees.pending_creator_fees, creator, U64_MAX)
        fees1 == [fees EXCEPT !.pending_creator_fees = new_creator]
        new_staking == checked_add(fees.pending_staking_fees, staking, U64_MAX)
    IN  IF creator = None \/ staking = None \/ remaining = None
           \/ referral = None \/ protocol = None \/ new_creator = None
        THEN FeeErr(fees)
        ELSE IF new_staking = None THEN FeeErr(fees1)
        ELSE [err |-> "Ok",
              fees |-> [fees1 EXCEPT !.pending_staking_fees = new_staking],
              creator_fee |-> creator, staking_fee |-> staking,
              protocol_fee |-> protocol, referral_fee |-> referral]

(***************************************************************************)
(* Market                                                                  *)
(***************************************************************************)
\* Price arrays are sequences of PRICES_LENGTH values; At reads index i of
\* the program's 0-based array.
At(arr, i) == arr[i + 1]

ZeroPrices == [i \in 1..PRICES_LENGTH |-> Zero]

\* The zero-initialised account.
ZeroMarket ==
    [config |-> 0, creator |-> 0, base_token_mint |-> 0, quote_token_mint |-> 0,
     base_reserve |-> Zero, bid_prices |-> ZeroPrices, ask_prices |-> ZeroPrices,
     width_scaled |-> Zero, total_supply |-> Zero,
     fees |-> [staking_fee_share |-> 0, creator_fee_share |-> 0,
               pending_staking_fees |-> Zero, pending_creator_fees |-> Zero],
     quote_token_decimals |-> 0, bump |-> 0]

InvalidTotalSupply(total_supply) ==
    \/ Lt(MAX_TOTAL_SUPPLY, total_supply)
    \/ Lt(checked_div(total_supply, Nat2Big(INTERVAL_NUMBER)), BASE_PRECISION)
    \/ checked_mul(checked_div(total_supply, Nat2Big(INTERVAL_NUMBER)),
                   Nat2Big(INTERVAL_NUMBER), U64_MAX) # total_supply

width_scaled_mut(total_supply) ==
    try_from_u64(checked_div(checked_mul(total_supply, SCALE, U128_MAX),
                             BASE_PRECISION))

width_scaled(total_supply) ==
    try_from_u64(checked_div(
        checked_mul(checked_div(total_supply, Nat2Big(INTERVAL_NUMBER)),
                    SCALE, U128_MAX),
        BASE_PRECISION))

\* The fields written before width_scaled is computed.
initialize_head(m, a) ==
    [m EXCEPT !.bump = a.bump, !.config = a.config, !.creator = a.creator,
              !.base_token_mint = a.base_token_mint,
              !.quote_token_mint = a.quote_token_mint,
              !.quote_token_decimals = a.quote_token_decimals,
              !.total_supply = a.total_supply,
              !.base_reserve = a.total_supply]

\* initialize; a holds the arguments.
initialize(m, a) ==
    IF InvalidTotalSupply(a.total_supply)
    THEN [err |-> "InvalidTotalSupply", market |-> m]
    ELSE LET m1 == initialize_head(m, a)
             w == width_scaled(a.total_supply)
         IN  IF w = None THEN [err |-> "MathError", market |-> m1]
             ELSE [err |-> "Ok",
                   market |-> [m1 EXCEPT
                       !.width_scaled = w,
                       !.fees.creator_fee_share = a.creator_fee_share,
                       !.fees.staking_fee_share = a.staking_fee_share]]

are_prices_set_mut(m) == At(m.ask_prices, 0) # Zero

are_prices_set(m) == At(m.ask_prices, INTERVAL_NUMBER) # Zero

\* The validation loop of check_and_set_prices from index i on: the first
\* error met, or Ok.
RECURSIVE check_prices_mut(_, _, _)
check_prices_mut(bid_prices, ask_prices, i) ==
    IF i >= PRICES_LENGTH THEN "Ok"
    ELSE IF Lt(At(ask_prices, i), At(bid_prices, i)) THEN "BidAskMismatch"
    ELSE IF i > 0 /\ (Lt(At(ask_prices, i), At(ask_prices, i - 1))
                      \/ Lt(At(bid_prices, i), At(bid_prices, i - 1)))
         THEN "DecreasingPrices"
    ELSE check_prices_mut(bid_prices, ask_prices, i + 1)

RECURSIVE check_prices(_, _, _)
check_prices(bid_prices, ask_prices, i) ==
    IF i >= PRICES_LENGTH THEN "Ok"
    ELSE IF Lt(At(ask_prices, i), At(bid_prices, i)) THEN "BidAskMismatch"
    ELSE IF i > 0 /\ (Le(At(ask_prices, i), At(ask_prices, i - 1))
                      \/ Le(At(bid_prices, i), At(bid_prices, i - 1)))
         THEN "DecreasingPrices"
    ELSE check_prices(bid_prices, ask_prices, i + 1)

check_and_set_prices(m, bid_prices, ask_prices) ==
    IF are_prices_set(m) THEN [err |-> "PricesAlreadySet", market |-> m]
    ELSE LET e == check_prices(bid_prices, ask_prices, 0)
         IN  IF e # "Ok" THEN [err |-> e, market |-> m]
             ELSE IF Lt(MAX_PRICE, At(ask_prices, INTERVAL_NUMBER))
                  THEN [err |-> "PriceTooHigh", market |-> m]
             ELSE [err |-> "Ok",
                   market |-> [m EXCEPT !.bid_prices = bid_prices,
                                        !.ask_prices = ask_prices]]

\* Option::unwrap_or(0)
unwrap_or_zero(v) == IF v = None THEN Zero ELSE v

circulating_supply(m) == unwrap_or_zero(checked_sub(m.total_supply, m.base_reserve))

(***************************************************************************)
(* math::mul_div and math::div: floor or ceiling of a * b / denom (of      *)
(* a / denom), computed on a wide intermediate; None when denom is 0 or    *)
(* the result does not fit (u128 for mul_div, u64 for div).                *)
(***************************************************************************)
\* The quotient q of n by denom, rounded as asked.
RoundedFrom(q, n, denom, rounding) ==
    IF q = q /\ rounding = "Up" /\ Mul(q, denom) # n THEN Add(q, One) ELSE q

Rounded(n, denom, rounding) == RoundedFrom(Div(n, denom), n, denom, rounding)

mul_div(a, b, denom, rounding) ==
    IF a = None \/ b = None \/ denom = None THEN None
    ELSE IF denom = Zero THEN None
    ELSE fits(Rounded(Mul(a, b), denom, rounding), U128_MAX)

div(a, denom, rounding) ==
    IF a = None \/ denom = None THEN None
    ELSE IF denom = Zero THEN None
    ELSE fits(Rounded(a, denom, rounding), U64_MAX)

Two == <<2>>

(***************************************************************************)
(* Market::get_quote_amount and get_quote_amount_with_parameters.  Each    *)
(* stage of the computation is an operator that receives the values of the *)
(* stages before it.                                                       *)
(***************************************************************************)
\* v * SCALE / BASE_PRECISION in u128.
normalized(v) == checked_div(checked_mul(v, SCALE, U128_MAX), BASE_PRECISION)

\* delta_base + 2 * interval_supply_already_used, given the product
\* twice_used.
delta_quote_factor(delta_base, twice_used) ==
    IF twice_used = Panic THEN Panic
    ELSE checked_add(delta_base, twice_used, U128_MAX)

\* (price_1 - price_0) * factor; the difference is computed first.
delta_quote_product(price_diff, factor) ==
    IF price_diff = None THEN None
    ELSE IF factor = Panic THEN Panic
    ELSE checked_mul(price_diff, factor, U128_MAX)

\* product + 2 * price_0 * width_scaled, given the product twice_pw, which
\* is computed only when product is Some.
delta_quote_numerator(product, twice_pw) ==
    IF product = Panic \/ product = None THEN product
    ELSE IF twice_pw = Panic THEN Panic
    ELSE checked_add(product, twice_pw, U128_MAX)

\* mul_div, whose arguments are computed in their order.
delta_quote_div(delta_base, numerator, denominator, rounding) ==
    IF numerator = Panic \/ numerator = None THEN numerator
    ELSE IF denominator = Panic THEN Panic
    ELSE mul_div(delta_base, numerator, denominator, rounding)

\* The quote of delta_base on the segment from price_0 to price_1, after
\* used of the interval: None for MathError, Panic for a panic.  The
\* products with the literal 2 are unchecked.
delta_quote(delta_base, price_0, price_1, used, width, rounding, checks) ==
    delta_quote_div(delta_base,
        delta_quote_numerator(
            delta_quote_product(checked_sub(price_1, price_0),
                delta_quote_factor(delta_base, unchecked_mul(Two, used, checks))),
            unchecked_mul(unchecked_mul(Two, price_0, checks), width, checks)),
        unchecked_mul(unchecked_mul(Two, SCALE, checks), width, checks),
        rounding)

accumulate_quote_mut(quote, delta) == delta

\* normalized_quote_amount after a segment.
accumulate_quote(quote, delta) == checked_add(quote, delta, U128_MAX)

\* min(normalized_base_amount_left, width_scaled - current_base_amount),
\* given room = width_scaled - current_base_amount.
delta_base_of(left, room) == IF room = None THEN None ELSE MinBig(left, room)

\* The segment loop from index i: what is left of the base amount and the
\* quote accumulated, with err "Ok", or err "MathError" or "Panic" with the
\* amounts as they were.  quote_step is given the segment's delta_base and
\* delta_quote, and quote_next the two amounts after the segment.
RECURSIVE quote_loop(_, _, _, _, _, _, _, _, _)
RECURSIVE quote_step(_, _, _, _, _, _, _, _, _)
RECURSIVE quote_next(_, _, _, _, _, _, _, _, _)
quote_next(width, price_curve, rounding, i, left, quote, left1, quote1, checks) ==
    IF left1 = None \/ quote1 = None
    THEN [err |-> "MathError", left |-> left, quote |-> quote]
    ELSE quote_loop(width, price_curve, rounding, i + 1, left1, quote1, Zero,
                    At(price_curve, i), checks)

quote_step(width, price_curve, rounding, i, left, quote, delta_base, delta, checks) ==
    IF delta_base = None
    THEN [err |-> "MathError", left |-> left, quote |-> quote]
    ELSE IF delta = Panic
    THEN [err |-> "Panic", left |-> left, quote |-> quote]
    ELSE IF delta = None
    THEN [err |-> "MathError", left |-> left, quote |-> quote]
    ELSE quote_next(width, price_curve, rounding, i, left, quote,
                    checked_sub(left, delta_base), accumulate_quote(quote, delta),
                    checks)

quote_loop(width, price_curve, rounding, i, left, quote, used, price_0, checks) ==
    IF left = Zero \/ i >= PRICES_LENGTH
    THEN [err |-> "Ok", left |-> left, quote |-> quote]
    ELSE quote_step(width, price_curve, rounding, i, left, quote,
             delta_base_of(left, checked_sub(width, used)),
             delta_quote(delta_base_of(left, checked_sub(width, used)),
                         price_0, At(price_curve, i), used, width, rounding,
                         checks),
             checks)

base_amount_swapped_mut(base_amount, left, rounding) == base_amount

base_amount_swapped(base_amount, left, rounding) ==
    checked_sub(base_amount,
                div(checked_mul(left, BASE_PRECISION, U128_MAX), SCALE, rounding))

\* The quote in the quote token's precision; quote_precision is
\* u128::pow(10, quote_token_decimals), whose panic ends the call.
quote_amount_swapped(quote, quote_precision, rounding) ==
    IF quote_precision = Panic THEN Panic
    ELSE div(checked_mul(quote, quote_precision, U128_MAX), SCALE, rounding)

QuoteErr == [err |-> "MathError", base |-> Zero, quote |-> Zero]

\* The call that panicked: the program is aborted and returns no amounts.
QuotePanic == [err |-> "Panic", base |-> Zero, quote |-> Zero]

\* Ok((base, quote)), unless one of the two amounts failed; base is computed
\* before quote.
quote_ok(base, quote) ==
    IF base = None THEN QuoteErr
    ELSE IF quote = Panic THEN QuotePanic
    ELSE IF quote = None THEN QuoteErr
    ELSE [err |-> "Ok", base |-> base, quote |-> quote]

\* The amounts swapped, from the result r of the segment loop.
quote_result(m, base_amount, rounding, r, checks) ==
    IF r.err = "Panic" THEN QuotePanic
    ELSE IF r.err # "Ok" THEN QuoteErr
    ELSE quote_ok(base_amount_swapped(base_amount, r.left, rounding),
                  quote_amount_swapped(r.quote,
                      Pow10(m.quote_token_decimals, checks), rounding))

\* From the interval index and current_base_amount (used) on.
quote_at(m, base_amount, price_curve, rounding, normalized_base_amount, index, used, checks) ==
    IF index = None \/ used = None THEN QuoteErr
    ELSE IF Lt(Nat2Big(INTERVAL_NUMBER), index) THEN QuoteErr
    ELSE quote_result(m, base_amount, rounding,
             quote_loop(m.width_scaled, price_curve, rounding,
                        Limb(index, 1) + 1, normalized_base_amount, Zero, used,
                        At(price_curve, Limb(index, 1)), checks),
             checks)

\* From the two normalised amounts on.
quote_start(m, base_amount, price_curve, rounding, normalized_supply, normalized_base_amount, checks) ==
    IF normalized_supply = None \/ normalized_base_amount = None THEN QuoteErr
    ELSE quote_at(m, base_amount, price_curve, rounding, normalized_base_amount,
                  checked_div(normalized_supply, m.width_scaled),
                  checked_rem(normalized_supply, m.width_scaled), checks)

get_quote_amount_with_parameters(m, supply, base_amount, swap_amount_type, rounding, checks) ==
    quote_start(m, base_amount,
                IF swap_amount_type = "ExactInput" THEN m.bid_prices
                ELSE m.ask_prices,
                rounding, normalized(supply), normalized(base_amount), checks)

quote_rounding_mut(swap_amount_type) ==
    IF swap_amount_type = "ExactInput" THEN "Up" ELSE "Down"

quote_rounding(swap_amount_type) ==
    IF swap_amount_type = "ExactInput" THEN "Down" ELSE "Up"

\* The supply the quote starts from: a sale walks the bid curve up from the
\* supply it leaves.
quote_supply(m, base_amount, swap_amount_type) ==
    IF swap_amount_type = "ExactInput"
    THEN checked_sub(circulating_supply(m), base_amount)
    ELSE circulating_supply(m)

quote_from_supply(m, supply, base_amount, swap_amount_type, checks) ==
    IF supply = None THEN QuoteErr
    ELSE get_quote_amount_with_parameters(m, supply, base_amount,
             swap_amount_type, quote_rounding(swap_amount_type), checks)

get_quote_amount(m, base_amount, swap_amount_type, checks) ==
    quote_from_supply(m, quote_supply(m, base_amount, swap_amount_type),
                      base_amount, swap_amount_type, checks)

(***************************************************************************)
(* Market::get_base_amount_in, with math::get_delta_base_in                *)
(***************************************************************************)
\* Newton's iteration on machine integers, down to the integer square root
\* of v from x >= sqrt(v).
RECURSIVE SqrtSmall(_, _)
SqrtSmall(v, x) ==
    IF (x + v \div x) \div 2 < x THEN SqrtSmall(v, (x + v \div x) \div 2) ELSE x

\* Newton's iteration down to the integer square root of n from x >= sqrt(n);
\* SqrtNext is given the next iterate y.
RECURSIVE SqrtFrom(_, _)
RECURSIVE SqrtNext(_, _, _)
SqrtNext(n, x, y) == IF y = y /\ Lt(y, x) THEN SqrtFrom(n, y) ELSE x

SqrtFrom(n, x) == SqrtNext(n, x, Div(Add(x, Div(n, x)), Two))

\* A start of the iteration for n of more than two limbs: the square root
\* of the two top limbs, rounded up and scaled.
SqrtStart(n) ==
    Tup([i \in 1..((Len(n) - 2) \div 2) |-> 0])
    \o Nat2Big((SqrtSmall(n[Len(n)] * Base + n[Len(n) - 1], Base) + 1)
               * (IF Len(n) % 2 = 0 THEN 1 ELSE 100))

\* The integer square root of n, rounded down.
Sqrt(n) ==
    IF n = Zero THEN Zero
    ELSE IF Len(n) <= 2
    THEN Nat2Big(SqrtSmall(Limb(n, 2) * Base + Limb(n, 1), Base))
    ELSE SqrtFrom(n, SqrtStart(n))

\* The part of available that stays unsold when kept_quote of the
\* interval's payout is not paid, rounded down: the trapezoid formula
\* inverted, with pw = price_0 * width.
kept_base(price_diff, width, kept_quote, pw) ==
    Div(Sub(Sqrt(Add(Mul(Mul(price_diff, kept_quote), Mul(Mul(Two, SCALE), width)),
                     Mul(pw, pw))),
            pw),
        price_diff)

\* get_delta_base_in, given the payout current_quote of available.
delta_base_in_from(price_0, price_diff, width, available, remaining_quote, current_quote) ==
    IF price_diff = None \/ current_quote = None THEN <<None, None>>
    ELSE IF Le(current_quote, remaining_quote)
         THEN <<available, current_quote>>
    ELSE IF price_diff = Zero THEN <<None, None>>
    ELSE <<Sub(available,
               kept_base(price_diff, width, Sub(current_quote, remaining_quote),
                         Mul(price_0, width))),
           remaining_quote>>

\* get_delta_base_in, given price_diff = price_1 - price_0.
delta_base_in_diff(price_0, price_diff, width, available, remaining_quote) ==
    delta_base_in_from(price_0, price_diff, width, available, remaining_quote,
        mul_div(available,
                checked_add(checked_mul(price_diff, available, U128_MAX),
                            Mul(Mul(Two, price_0), width), U128_MAX),
                Mul(Mul(Two, SCALE), width), "Down"))

\* The base to sell inside one interval, of which available is still sold,
\* for a payout of at most remaining_quote: the whole of it when its payout
\* (rounded down) does not exceed remaining_quote, and otherwise the base,
\* rounded up, whose payout is remaining_quote.  <<None, None>> is the error.
get_delta_base_in(price_0, price_1, width, available, remaining_quote) ==
    delta_base_in_diff(price_0, checked_sub(price_1, price_0), width, available,
                       remaining_quote)

\* The backward segment loop from index i: the base accumulated and what is
\* left of the quote, or err.  base_in_step is given the segment's
\* <<delta_base, delta_quote>>.
RECURSIVE base_in_loop(_, _, _, _, _, _, _)
RECURSIVE base_in_step(_, _, _, _, _, _)
base_in_step(width, price_curve, i, left, base, d) ==
    IF checked_add(base, d[1], U128_MAX) = None \/ checked_sub(left, d[2]) = None
    THEN [err |-> TRUE, left |-> left, base |-> base]
    ELSE base_in_loop(width, price_curve, i - 1, checked_sub(left, d[2]),
                      checked_add(base, d[1], U128_MAX), width,
                      At(price_curve, i - 1))

base_in_loop(width, price_curve, i, left, base, available, price_1) ==
    IF left = Zero \/ i <= 0
    THEN [err |-> FALSE, left |-> left, base |-> base]
    ELSE base_in_step(width, price_curve, i, left, base,
             get_delta_base_in(At(price_curve, i - 1), price_1, width,
                               available, left))

\* The amounts swapped, from the result r of the segment loop.
base_in_result(quote_amount, quote_precision, r) ==
    IF r.err THEN QuoteErr
    ELSE quote_ok(div(checked_mul(r.base, BASE_PRECISION, U128_MAX), SCALE, "Up"),
                  checked_sub(quote_amount,
                      div(checked_mul(r.left, quote_precision, U128_MAX),
                          SCALE, "Up")))

\* From the interval index i (a usize, or Panic) and the base available in
\* it on.  price_curve[i] panics in every build when i is beyond the array.
base_in_at(m, quote_amount, quote_precision, normalized_quote_amount_left, i, available) ==
    IF i = Panic THEN QuotePanic
    ELSE IF Lt(Nat2Big(INTERVAL_NUMBER), i) THEN QuotePanic
    ELSE base_in_result(quote_amount, quote_precision,
             base_in_loop(m.width_scaled, m.bid_prices, Limb(i, 1),
                          normalized_quote_amount_left, Zero, available,
                          At(m.bid_prices, Limb(i, 1))))

\* From index = supply / width and rest = supply % width on: the interval
\* below a supply on an interval boundary is sold whole.  The index is
\* narrowed to usize (64 bits), and i += 1 is unchecked.
base_in_index(m, quote_amount, quote_precision, normalized_quote_amount_left, index, rest, checks) ==
    IF index = None \/ rest = None THEN QuoteErr
    ELSE IF Lt(U64_MAX, index) THEN QuoteErr
    ELSE IF rest = Zero
    THEN base_in_at(m, quote_amount, quote_precision,
                    normalized_quote_amount_left, index, m.width_scaled)
    ELSE base_in_at(m, quote_amount, quote_precision,
                    normalized_quote_amount_left,
                    unchecked(Add(index, One), U64_MAX, checks), rest)

\* From the normalised quote amount on.
base_in_quote(m, quote_amount, quote_precision, normalized_supply, normalized_quote_amount_left, checks) ==
    IF normalized_quote_amount_left = None THEN QuoteErr
    ELSE base_in_index(m, quote_amount, quote_precision,
                       normalized_quote_amount_left,
                       checked_div(normalized_supply, m.width_scaled),
                       checked_rem(normalized_supply, m.width_scaled), checks)

\* From the normalised supply and quote_precision on; a panic of
\* u128::pow ends the call.
base_in_start(m, quote_amount, normalized_supply, quote_precision, checks) ==
    IF normalized_supply = None THEN QuoteErr
    ELSE IF quote_precision = Panic THEN QuotePanic
    ELSE base_in_quote(m, quote_amount, quote_precision, normalized_supply,
             checked_div(checked_mul(quote_amount, SCALE, U128_MAX),
                         quote_precision),
             checks)

get_base_amount_in(m, quote_amount, checks) ==
    base_in_start(m, quote_amount, normalized(circulating_supply(m)),
                  Pow10(m.quote_token_decimals, checks), checks)

(***************************************************************************)
(* State: the market account, the account as it was before the last call,  *)
(* the last call with its arguments and results, and the numbers of        *)
(* distribute_fee calls (bounded by MaxFeeCalls), of trades (MaxSwaps) and  *)
(* of quote computations since the last trade (MaxQuotes).                 *)
(* overflow_checks is the build the program runs in: whether its unchecked *)
(* arithmetic panics on overflow or wraps around.                          *)
(***************************************************************************)
VARIABLES market, prev, last, ncalls, nswaps, nquotes, overflow_checks

vars == <<market, prev, last, ncalls, nswaps, nquotes, overflow_checks>>

Init ==
    /\ overflow_checks \in BOOLEAN
    /\ market = ZeroMarket
    /\ prev = ZeroMarket
    /\ last = [op |-> "none"]
    /\ ncalls = 0
    /\ nswaps = 0
    /\ nquotes = 0

\* The account is created by the instruction that initialises it; every
\* other instruction works on an initialised market.
IsInitialized == market.total_supply # Zero

InitArgs(total_supply, decimals, creator_fee_share, staking_fee_share) ==
    [bump |-> 254, config |-> 1, creator |-> 2, base_token_mint |-> 3,
     quote_token_mint |-> 4, quote_token_decimals |-> decimals,
     total_supply |-> total_supply, creator_fee_share |-> creator_fee_share,
     staking_fee_share |-> staking_fee_share]

\* The market and the record of an initialize call with arguments a that
\* returned r.
InitializeCall(a, r) ==
    /\ market' = r.market
    /\ last' = [op |-> "initialize", args |-> a, err |-> r.err]

Initialize(total_supply, decimals, creator_fee_share, staking_fee_share) ==
    /\ ~IsInitialized
    /\ InitializeCall(
           InitArgs(total_supply, decimals, creator_fee_share, staking_fee_share),
           initialize(market, InitArgs(total_supply, decimals, creator_fee_share,
                                       staking_fee_share)))
    /\ prev' = market
    /\ UNCHANGED <<ncalls, nswaps, nquotes, overflow_checks>>

CheckAndSetPrices(bid_prices, ask_prices) ==
    /\ IsInitialized
    /\ LET r == check_and_set_prices(market, bid_prices, ask_prices)
       IN  /\ market' = r.market
           /\ last' = [op |-> "check_and_set_prices", bid_prices |-> bid_prices,
                       ask_prices |-> ask_prices, err |-> r.err]
    /\ prev' = market
    /\ UNCHANGED <<ncalls, nswaps, nquotes, overflow_checks>>

DistributeFee(swap_fee, referral_fee_share) ==
    /\ IsInitialized
    /\ ncalls < MaxFeeCalls
    /\ LET r == distribute_fee(market.fees, swap_fee, referral_fee_share)
       IN  /\ market' = [market EXCEPT !.fees = r.fees]
           /\ last' = [op |-> "distribute_fee", swap_fee |-> swap_fee,
                       referral_fee_share |-> referral_fee_share, err |-> r.err,
                       creator_fee |-> r.creator_fee, staking_fee |-> r.staking_fee,
                       protocol_fee |-> r.protocol_fee,
                       referral_fee |-> r.referral_fee]
    /\ prev' = market
    /\ ncalls' = ncalls + 1
    /\ UNCHANGED <<nswaps, nquotes, overflow_checks>>

\* The quote computation or trade that came right before this one, if any.
Before ==
    IF last.op \in {"get_quote_amount", "swap"}
    THEN [op |-> last.op, base_amount |-> last.base_amount,
          swap_amount_type |-> last.swap_amount_type, err |-> last.err,
          base |-> last.base, quote |-> last.quote]
    ELSE [op |-> "none"]

\* The record of a get_quote_amount call that returned r.
QuoteCall(base_amount, swap_amount_type, r) ==
    [op |-> "get_quote_amount", base_amount |-> base_amount,
     swap_amount_type |-> swap_amount_type, err |-> r.err,
     base |-> r.base, quote |-> r.quote, before |-> Before]

\* get_quote_amount reads the market and changes nothing.
GetQuoteAmount(base_amount, swap_amount_type) ==
    /\ IsInitialized /\ are_prices_set(market)
    /\ nquotes < MaxQuotes
    /\ last' = QuoteCall(base_amount, swap_amount_type,
                         get_quote_amount(market, base_amount, swap_amount_type,
                                          overflow_checks))
    /\ prev' = market
    /\ nquotes' = nquotes + 1
    /\ UNCHANGED <<market, ncalls, nswaps, overflow_checks>>

\* The record of a get_base_amount_in call that returned r.
BaseInCall(quote_amount, r) ==
    [op |-> "get_base_amount_in", quote_amount |-> quote_amount,
     err |-> r.err, base |-> r.base, quote |-> r.quote]

\* get_base_amount_in reads the market and changes nothing.
GetBaseAmountIn(quote_amount) ==
    /\ IsInitialized /\ are_prices_set(market)
    /\ nquotes < MaxQuotes
    /\ last' = BaseInCall(quote_amount,
                           get_base_amount_in(market, quote_amount, overflow_checks))
    /\ prev' = market
    /\ nquotes' = nquotes + 1
    /\ UNCHANGED <<market, ncalls, nswaps, overflow_checks>>

\* The reserve after a trade that settled base: a buy (ExactOutput) takes
\* it out of the reserve, a sale (ExactInput) returns it.
reserve_after(base_reserve, base, swap_amount_type) ==
    IF swap_amount_type = "ExactOutput"
    THEN checked_sub(base_reserve, base)
    ELSE checked_add(base_reserve, base, U64_MAX)

\* A trade: the quote r is computed and, when that succeeds, the settled
\* base moves between the reserve and the trader.  A trade whose quote
\* failed or panicked changes nothing.
swap_settled(m, r, reserve) ==
    IF r.err # "Ok"
    THEN [err |-> r.err, market |-> m, base |-> r.base, quote |-> r.quote]
    ELSE IF reserve = None
    THEN [err |-> "MathError", market |-> m, base |-> r.base, quote |-> r.quote]
    ELSE [err |-> "Ok", market |-> [m EXCEPT !.base_reserve = reserve],
          base |-> r.base, quote |-> r.quote]

swap_quoted(m, swap_amount_type, r) ==
    swap_settled(m, r, reserve_after(m.base_reserve, r.base, swap_amount_type))

swap(m, base_amount, swap_amount_type, checks) ==
    swap_quoted(m, swap_amount_type,
                get_quote_amount(m, base_amount, swap_amount_type, checks))

\* The market and the record of a trade that returned t.
SwapCall(base_amount, swap_amount_type, t) ==
    /\ market' = t.market
    /\ last' = [op |-> "swap", base_amount |-> base_amount,
                swap_amount_type |-> swap_amount_type, err |-> t.err,
                base |-> t.base, quote |-> t.quote]

Swap(base_amount, swap_amount_type) ==
    /\ IsInitialized /\ are_prices_set(market)
    /\ nswaps < MaxSwaps
    /\ SwapCall(base_amount, swap_amount_type,
                swap(market, base_amount, swap_amount_type, overflow_checks))
    /\ prev' = market
    /\ nswaps' = nswaps + 1
    /\ nquotes' = 0
    /\ UNCHANGED <<ncalls, overflow_checks>>

(***************************************************************************)
(* Fee distribution: markets with each pair of fee shares, then up to      *)
(* MaxFeeCalls calls of distribute_fee.                                    *)
(***************************************************************************)
\* 10 * BASE_PRECISION, the least valid total supply.
MinSupply == <<0, 1000>>

\* <<creator_fee_share, staking_fee_share>>
FeeSharePairs == {<<0, 0>>, <<1000, 9000>>, <<9000, 1000>>, <<2000, 3000>>, <<6000, 6000>>}

SwapFees == {Zero, Nat2Big(9999), Nat2Big(123456789), U64_MAX}

ReferralShares == {NoReferral, 0, 2500, MAX_BPS, U16_MAX}

InitializeFees ==
    \E p \in FeeSharePairs : Initialize(MinSupply, 9, p[1], p[2])

DistributeAnyFee ==
    \E f \in SwapFees, r \in ReferralShares : DistributeFee(f, r)

NextFees == InitializeFees \/ DistributeAnyFee

SpecFees == Init /\ [][NextFees]_vars

\* C1: whenever distribute_fee returns Ok, the four fees sum exactly to
\* swap_fee and the two pending balances have grown by exactly creator_fee
\* and staking_fee.
FeesSumToSwapFee ==
    (last.op = "distribute_fee" /\ last.err = "Ok") =>
        /\ Add(Add(last.creator_fee, last.staking_fee),
               Add(last.protocol_fee, last.referral_fee)) = last.swap_fee
        /\ market.fees.pending_creator_fees
               = Add(prev.fees.pending_creator_fees, last.creator_fee)
        /\ market.fees.pending_staking_fees
               = Add(prev.fees.pending_staking_fees, last.staking_fee)

\* A call that split a fee with a remainder lost to each floor: a referral
\* share strictly between 0 and 100%, and all four fees positive.
FeesSumWitness ==
    /\ last.op = "distribute_fee" /\ last.err = "Ok"
    /\ last.referral_fee_share = 2500
    /\ last.swap_fee = Nat2Big(9999)
    /\ last.creator_fee # Zero /\ last.staking_fee # Zero
    /\ last.protocol_fee # Zero /\ last.referral_fee # Zero
    /\ prev.fees.pending_creator_fees # Zero

\* C8: after a successful initialize the stored fee shares satisfy
\* creator_fee_share + staking_fee_share <= MAX_BPS.
FeeSharesWithinBps ==
    IsInitialized =>
        market.fees.creator_fee_share + market.fees.staking_fee_share <= MAX_BPS

\* C9: a failing distribute_fee leaves both pending balances as they were,
\* and no call ever decreases a pending balance.
FeeErrorLeavesPending ==
    last.op = "distribute_fee" =>
        /\ last.err # "Ok" =>
              /\ market.fees.pending_creator_fees = prev.fees.pending_creator_fees
              /\ market.fees.pending_staking_fees = prev.fees.pending_staking_fees
        /\ Le(prev.fees.pending_creator_fees, market.fees.pending_creator_fees)
        /\ Le(prev.fees.pending_staking_fees, market.fees.pending_staking_fees)

(***************************************************************************)
(* Initialisation: initialize on a fresh account, with total supplies      *)
(* around every limit it checks.                                           *)
(***************************************************************************)
TotalSupplies ==
    {Zero, Nat2Big(10), Nat2Big(9999990), Nat2Big(9999999), MinSupply,
     Nat2Big(10000001), Nat2Big(10000005), Nat2Big(10000010),
     Nat2Big(123456780), Sub(MAX_TOTAL_SUPPLY, Nat2Big(10)),
     Sub(MAX_TOTAL_SUPPLY, One), MAX_TOTAL_SUPPLY, Add(MAX_TOTAL_SUPPLY, One),
     Add(MAX_TOTAL_SUPPLY, Nat2Big(10)), Sub(U64_MAX, Nat2Big(5)), U64_MAX}

\* quote_token_decimals is a u8 that initialize stores as it is given.
QuoteDecimals == {0, 6, 9, 255}

InitializeAny ==
    \E t \in TotalSupplies, d \in QuoteDecimals, p \in FeeSharePairs :
        Initialize(t, d, p[1], p[2])

NextInit == InitializeAny

SpecInit == Init /\ [][NextInit]_vars

\* The condition under which the specification has initialize reject.
SupplyRejected(total_supply) ==
    \/ Lt(MAX_TOTAL_SUPPLY, total_supply)
    \/ Lt(Div(total_supply, Nat2Big(INTERVAL_NUMBER)), BASE_PRECISION)
    \/ Rem(total_supply, Nat2Big(INTERVAL_NUMBER)) # Zero

\* C7: initialize returns InvalidTotalSupply and changes no field when the
\* supply is above MAX_TOTAL_SUPPLY, or a tenth of it is below
\* BASE_PRECISION, or it is no multiple of 10; otherwise it returns Ok with
\* base_reserve = total_supply, circulating supply 0 and
\* width_scaled = (total_supply / 10) * SCALE / BASE_PRECISION.  It never
\* fails after having written a field.
InitializeAllOrNothing ==
    last.op = "initialize" =>
        LET t == last.args.total_supply
        IN  /\ SupplyRejected(t) =>
                  last.err = "InvalidTotalSupply" /\ market = prev
            /\ ~SupplyRejected(t) =>
                  /\ last.err = "Ok"
                  /\ market.total_supply = t
                  /\ market.base_reserve = t
                  /\ circulating_supply(market) = Zero
                  /\ market.width_scaled
                        = Div(Mul(Div(t, Nat2Big(INTERVAL_NUMBER)), SCALE),
                              BASE_PRECISION)
            /\ last.err # "Ok" => market = prev

\* The largest valid supply was accepted, with the largest width_scaled.
InitializeWitness ==
    /\ last.op = "initialize" /\ last.err = "Ok"
    /\ market.total_supply = MAX_TOTAL_SUPPLY
    /\ market.base_reserve = MAX_TOTAL_SUPPLY
    /\ market.width_scaled = <<0, 0, 0, 0, 100>>

(***************************************************************************)
(* Prices: check_and_set_prices with valid curves and with curves that     *)
(* break one condition at one index, before and after the prices are set.  *)
(***************************************************************************)
Prices(ints) == [i \in 1..PRICES_LENGTH |-> Nat2Big(ints[i])]

Put(arr, i, v) == [arr EXCEPT ![i + 1] = v]

BidA == Prices(<<10, 20, 30, 45, 60, 80, 100, 130, 170, 220, 290>>)
AskA == Prices(<<11, 25, 30, 50, 70, 90, 120, 150, 200, 260, 300>>)
\* The ask curve that ends on the ceiling.
AskTop == Put(AskA, INTERVAL_NUMBER, MAX_PRICE)

\* The curves that start at price 0.
BidZero == Put(BidA, 0, Zero)
AskZero == Put(AskA, 0, Zero)

ValidCurves ==
    {<<BidA, AskA>>, <<BidA, BidA>>, <<AskA, AskTop>>, <<BidZero, AskZero>>,
     <<BidZero, AskA>>}

InvalidCurves ==
    {<<Put(BidA, i, Add(At(AskA, i), One)), AskA>> : i \in 0..INTERVAL_NUMBER}
    \cup {<<BidA, Put(AskA, i, At(AskA, i - 1))>> : i \in 1..INTERVAL_NUMBER}
    \cup {<<Put(BidA, i, At(BidA, i - 1)), AskA>> : i \in 1..INTERVAL_NUMBER}
    \cup {<<Put(BidA, i, Zero), AskA>> : i \in 1..INTERVAL_NUMBER}
    \cup {<<BidA, Put(AskA, INTERVAL_NUMBER, Add(MAX_PRICE, One))>>,
          <<BidA, Put(AskA, INTERVAL_NUMBER, U64_MAX)>>,
          <<Put(AskTop, INTERVAL_NUMBER, Add(MAX_PRICE, One)),
            Put(AskTop, INTERVAL_NUMBER, Add(MAX_PRICE, One))>>,
          <<ZeroPrices, ZeroPrices>>,
          <<BidA, Put(AskA, INTERVAL_NUMBER, Zero)>>}

InitializePrices == Initialize(MinSupply, 9, 2000, 3000)

SetAnyPrices ==
    \E c \in ValidCurves \cup InvalidCurves : CheckAndSetPrices(c[1], c[2])

DistributeOneFee == DistributeFee(Nat2Big(9999), NoReferral)

QuoteOne == GetQuoteAmount(Nat2Big(999999), "ExactOutput")

NextPrices == InitializePrices \/ SetAnyPrices \/ DistributeOneFee \/ QuoteOne

SpecPrices == Init /\ [][NextPrices]_vars

\* check_and_set_prices has returned Ok: only that writes the price arrays,
\* and the arrays it accepts are not all 0.
PricesWereSet == market.ask_prices # ZeroPrices

\* C2: once check_and_set_prices has returned Ok, every later call fails with
\* PricesAlreadySet whatever it is given, and bid_prices and ask_prices never
\* change again, whatever operation runs.
PricesSetOnce ==
    [][PricesWereSet =>
          /\ market'.bid_prices = market.bid_prices
          /\ market'.ask_prices = market.ask_prices
          /\ last'.op = "check_and_set_prices" => last'.err = "PricesAlreadySet"]_vars

\* A second call with another valid curve was refused.
PricesSetOnceWitness ==
    /\ last.op = "check_and_set_prices" /\ last.err = "PricesAlreadySet"
    /\ <<last.bid_prices, last.ask_prices>> \in ValidCurves
    /\ last.ask_prices # market.ask_prices
    /\ market.ask_prices = AskA

\* The conditions the specification puts on a pair of price arrays.
PricesValid(bid_prices, ask_prices) ==
    /\ \A i \in 0..INTERVAL_NUMBER : Le(At(bid_prices, i), At(ask_prices, i))
    /\ \A i \in 1..INTERVAL_NUMBER :
          /\ Lt(At(bid_prices, i - 1), At(bid_prices, i))
          /\ Lt(At(ask_prices, i - 1), At(ask_prices, i))
    /\ Le(At(ask_prices, INTERVAL_NUMBER), MAX_PRICE)

\* C3: on a market whose prices are not set, check_and_set_prices returns Ok
\* and stores both arrays exactly when bid <= ask at every index, both arrays
\* strictly increase and the last ask is at most MAX_PRICE; otherwise it
\* returns BidAskMismatch, DecreasingPrices or PriceTooHigh and leaves both
\* stored arrays as they were.
PricesAcceptedIffValid ==
    (last.op = "check_and_set_prices" /\ ~are_prices_set(prev)) =>
        IF PricesValid(last.bid_prices, last.ask_prices)
        THEN /\ last.err = "Ok"
             /\ market.bid_prices = last.bid_prices
             /\ market.ask_prices = last.ask_prices
        ELSE /\ last.err \in {"BidAskMismatch", "DecreasingPrices", "PriceTooHigh"}
             /\ market.bid_prices = prev.bid_prices
             /\ market.ask_prices = prev.ask_prices

\* The curve that ends exactly on MAX_PRICE was accepted and stored.
PricesAcceptedWitness ==
    /\ last.op = "check_and_set_prices" /\ last.err = "Ok"
    /\ ~are_prices_set(prev)
    /\ market.ask_prices = AskTop /\ market.bid_prices = AskA

(***************************************************************************)
(* Forward quotes: a small market and the largest one, small markets whose *)
(* 10^quote_token_decimals overflows u128 (39 decimals, the least such     *)
(* value, and 128, from which on the power wraps to 0), buys that move the *)
(* reserve, and up to MaxQuotes quote computations in a row, in one        *)
(* direction, with amounts on both sides of an interval boundary and of    *)
(* the reserve.                                                            *)
(***************************************************************************)
\* The curve with every price multiplied by 10^8, plus its index.
Scaled(curve) ==
    [i \in 1..PRICES_LENGTH |->
        Add(Mul(curve[i], Nat2Big(100000000)), Nat2Big(i))]

BidS == Scaled(BidA)
AskS == Scaled(AskA)

\* <<total_supply, quote_token_decimals, bid_prices, ask_prices>>
QuoteMarkets ==
    {<<MinSupply, 9, BidS, AskS>>, <<MAX_TOTAL_SUPPLY, 9, AskA, AskTop>>,
     <<MinSupply, 39, BidS, AskS>>, <<MinSupply, 128, BidS, AskS>>}

\* One unit less and one unit more than an interval of the small market, the
\* whole reserve, and one unit more than the reserve.
QuoteAmounts ==
    {Nat2Big(999999), Nat2Big(1000001), market.base_reserve,
     Add(market.base_reserve, One)}

SwapAmountTypes == {"ExactInput", "ExactOutput"}

InitializeQuote ==
    \E m \in QuoteMarkets : Initialize(m[1], m[2], 2000, 3000)

SetPricesQuote ==
    \E m \in QuoteMarkets :
        /\ market.total_supply = m[1]
        /\ CheckAndSetPrices(m[3], m[4])

BuyQuote == Swap(Nat2Big(1234567), "ExactOutput")

\* Quote computations in a row are in one direction.
GetAnyQuoteAmount ==
    \E x \in QuoteAmounts, t \in SwapAmountTypes :
        /\ last.op = "get_quote_amount" => t = last.swap_amount_type
        /\ GetQuoteAmount(x, t)

NextQuote == InitializeQuote \/ SetPricesQuote \/ BuyQuote \/ GetAnyQuoteAmount

SpecQuote == Init /\ [][NextQuote]_vars

\* C5 as stated: an exact-output get_quote_amount returns Ok and settles
\* min(base_amount, base_reserve), whatever the market and the reserve.
QuoteAlwaysSettlesMin ==
    (last.op = "get_quote_amount" /\ last.swap_amount_type = "ExactOutput") =>
        /\ last.err = "Ok"
        /\ last.base = MinBig(last.base_amount, market.base_reserve)

\* C5 amended: an exact-output get_quote_amount either fails with MathError,
\* or panics (only in a build with overflow checks, on a market whose
\* 10^quote_token_decimals overflows u128), or returns Ok and settles
\* min(base_amount, base_reserve).
QuoteSettlesMinOrFails ==
    (last.op = "get_quote_amount" /\ last.swap_amount_type = "ExactOutput") =>
        /\ last.err \in {"Ok", "MathError", "Panic"}
        /\ last.err = "Panic" =>
              /\ overflow_checks
              /\ Pow10(market.quote_token_decimals, TRUE) = Panic
        /\ last.err = "Ok" =>
              last.base = MinBig(last.base_amount, market.base_reserve)

\* One unit more than a partly sold reserve was asked for, and the reserve
\* was settled.
QuoteSettlesMinWitness ==
    /\ last.op = "get_quote_amount" /\ last.swap_amount_type = "ExactOutput"
    /\ last.err = "Ok"
    /\ last.base_amount = Add(market.base_reserve, One)
    /\ last.base = market.base_reserve
    /\ Lt(market.base_reserve, market.total_supply)
    /\ last.quote # Zero

\* C6: on one market state and in one direction, of two base amounts for
\* which get_quote_amount returns Ok the larger never gets the smaller quote.
QuoteMonotonic ==
    (/\ last.op = "get_quote_amount" /\ last.before.op = "get_quote_amount"
     /\ last.swap_amount_type = last.before.swap_amount_type
     /\ last.err = "Ok" /\ last.before.err = "Ok") =>
        /\ Le(last.before.base_amount, last.base_amount) =>
              Le(last.before.quote, last.quote)
        /\ Le(last.base_amount, last.before.base_amount) =>
              Le(last.quote, last.before.quote)

\* Two sales quoted on the same state, the second two units larger and
\* reaching into one more interval, and its quote larger.
QuoteMonotonicWitness ==
    /\ last.op = "get_quote_amount" /\ last.before.op = "get_quote_amount"
    /\ last.swap_amount_type = "ExactInput"
    /\ last.before.swap_amount_type = "ExactInput"
    /\ last.err = "Ok" /\ last.before.err = "Ok"
    /\ last.before.base_amount = Nat2Big(999999)
    /\ last.base_amount = Nat2Big(1000001)
    /\ Lt(last.before.quote, last.quote)
    /\ circulating_supply(market) # Zero

(***************************************************************************)
(* Round trips: buys that put base into circulation, a sale, and the quote *)
(* for buying the sold amount back, on a curve whose bid and ask prices    *)
(* are equal and on one with a spread, and on a market whose               *)
(* 10^quote_token_decimals overflows u128.                                 *)
(***************************************************************************)
\* <<total_supply, quote_token_decimals, bid_prices, ask_prices>>
RoundTripMarkets ==
    {<<MinSupply, 9, BidS, BidS>>, <<MinSupply, 0, BidS, BidS>>,
     <<Nat2Big(123456780), 9, BidS, AskS>>, <<Nat2Big(123456780), 6, BidS, BidS>>,
     <<MinSupply, 128, BidS, BidS>>}

BuyAmounts == {Nat2Big(1234567), Nat2Big(7654321)}

SellAmounts == {One, Nat2Big(999999), Nat2Big(1234567), circulating_supply(market)}

InitializeRoundTrip ==
    \E m \in RoundTripMarkets : Initialize(m[1], m[2], 2000, 3000)

SetPricesRoundTrip ==
    \E m \in RoundTripMarkets :
        /\ market.total_supply = m[1]
        /\ market.quote_token_decimals = m[2]
        /\ CheckAndSetPrices(m[3], m[4])

Buy == \E x \in BuyAmounts : Swap(x, "ExactOutput")

Sell == \E x \in SellAmounts : Swap(x, "ExactInput")

\* The quote for buying back what the last trade sold.
QuoteBuyBack ==
    /\ last.op = "swap" /\ last.swap_amount_type = "ExactInput"
    /\ last.err = "Ok"
    /\ GetQuoteAmount(last.base_amount, "ExactOutput")

NextRoundTrip ==
    InitializeRoundTrip \/ SetPricesRoundTrip \/ Buy \/ Sell \/ QuoteBuyBack

SpecRoundTrip == Init /\ [][NextRoundTrip]_vars

\* C4: the quote paid for a sale of X is never greater than the quote
\* charged for buying X back right after it.
RoundTripNoGain ==
    (/\ last.op = "get_quote_amount" /\ last.swap_amount_type = "ExactOutput"
     /\ last.err = "Ok"
     /\ last.before.op = "swap" /\ last.before.swap_amount_type = "ExactInput"
     /\ last.before.err = "Ok"
     /\ last.before.base_amount = last.base_amount) =>
        Le(last.before.quote, last.quote)

\* A sale on a curve with equal bid and ask prices whose buy-back costs
\* exactly one unit more than the sale paid: the two roundings.
RoundTripWitness ==
    /\ last.op = "get_quote_amount" /\ last.swap_amount_type = "ExactOutput"
    /\ last.err = "Ok"
    /\ last.before.op = "swap" /\ last.before.swap_amount_type = "ExactInput"
    /\ last.before.err = "Ok"
    /\ last.before.base_amount = last.base_amount
    /\ last.before.base = last.base_amount /\ last.base = last.base_amount
    /\ market.bid_prices = market.ask_prices
    /\ last.before.quote # Zero
    /\ last.quote = Add(last.before.quote, One)

(***************************************************************************)
(* Base for a quote payout: markets with quote tokens of 6 to 18 decimals  *)
(* and with 39 and 128 decimals, where 10^quote_token_decimals overflows   *)
(* u128, buys that put base into circulation, and get_base_amount_in.      *)
(***************************************************************************)
BaseInDecimals == {6, 9, 11, 18, 39, 128}

PayoutAmounts == {One, Nat2Big(99), Nat2Big(12345678), U64_MAX}

InitializeBaseIn ==
    \E d \in BaseInDecimals : Initialize(MinSupply, d, 2000, 3000)

SetPricesBaseIn == CheckAndSetPrices(BidS, AskS)

GetAnyBaseAmountIn == \E q \in PayoutAmounts : GetBaseAmountIn(q)

NextBaseIn == InitializeBaseIn \/ SetPricesBaseIn \/ Buy \/ GetAnyBaseAmountIn

SpecBaseIn == Init /\ [][NextBaseIn]_vars

\* C10: when get_base_amount_in returns Ok with no base to pay in, the quote
\* it reports as paid out is 0.
NoBaseNoPayout ==
    (last.op = "get_base_amount_in" /\ last.err = "Ok" /\ last.base = Zero) =>
        last.quote = Zero

====
